---- MODULE Spec2Model ----
\* Alert ingestion, dispatch and payout of insta-relief (functions/index.js),
\* modelled as a state machine over the Firestore collections "users" and
\* "processedAlerts", the outbound mail gateway and the running invocations.
EXTENDS Integers, Sequences, FiniteSets, TLC

\* ---------------------------------------------------------------------
\* JavaScript strings are sequences of one-character strings; a JavaScript
\* value is a tagged record so that null and undefined differ from "".
\* ---------------------------------------------------------------------
UpperCase == <<"A","B","C","D","E","F","G","H","I","J","K","L","M",
               "N","O","P","Q","R","S","T","U","V","W","X","Y","Z">>
LowerCase == <<"a","b","c","d","e","f","g","h","i","j","k","l","m",
               "n","o","p","q","r","s","t","u","v","w","x","y","z">>

toLowerChar(c) ==
  IF \E i \in 1..Len(UpperCase) : UpperCase[i] = c
  THEN LowerCase[CHOOSE i \in 1..Len(UpperCase) : UpperCase[i] = c]
  ELSE c

\* String.prototype.toLowerCase
toLowerCase(s) == [i \in 1..Len(s) |-> toLowerChar(s[i])]

\* String.prototype.includes: key occurs in s as a contiguous substring
includes(s, key) ==
  \E k \in 0..(Len(s) - Len(key)) :
    \A i \in 1..Len(key) : s[k + i] = key[i]

Str(s) == [type |-> "string", chars |-> s]
Null == [type |-> "null", chars |-> <<>>]
Undefined == [type |-> "undefined", chars |-> <<>>]

\* JavaScript truthiness of a string / null / undefined value
Truthy(v) == v.type = "string" /\ v.chars # <<>>

\* the JavaScript expression  a || b
OrElse(a, b) == IF Truthy(a) THEN a ELSE b

extreme == <<"e","x","t","r","e","m","e">>
severe == <<"s","e","v","e","r","e">>

\* mutant of shouldSendPayout: the comparison forgets to lower-case
shouldSendPayoutCaseSensitive(severity) ==
  LET sev == OrElse(severity, Str(<<>>)).chars
  IN  sev = extreme \/ sev = severe

shouldSendPayout(severity) ==
  LET sev == toLowerCase(OrElse(severity, Str(<<>>)).chars)
  IN  sev = extreme \/ sev = severe

\* ---------------------------------------------------------------------
\* Data: users, postal codes, the lookup table and the alerts of the feed
\* ---------------------------------------------------------------------
Tangipahoa == <<"T","a","n","g">>
Orleans == <<"O","r","l">>
Jefferson == <<"J","e","f">>
Zip70401 == <<"7","0","4">>
Zip70112 == <<"7","0","1">>
Extreme == <<"E","x","t","r","e","m","e">>
Minor == <<"M","i","n","o","r">>

Users == {"u1", "u2"}
\* order in which a query snapshot lists its documents
UserOrder == <<"u1", "u2">>
Slots == {"s1", "s2"}

\* bounds of the model
MaxTicks == 1
InitBalance == 50
\* latest Date.now() at which the rate-limit decisions are compared
MaxNow == 102
\* most tool uses the LLM asks for in a request in which it asks for the
\* tool auto_trigger_catastrophe
MaxToolsWithTrigger == 1

\* the time unit is 30 minutes; index.js:94 thirtyMinutes = 30 * 60 * 1000 ms
thirtyMinutes == 1
\* src/unnamed/part_000:102  3000 * 60 * 1000 ms, in the same unit
limit000 == 100
\* Date.now() when the model starts: far more than 30 minutes after the epoch
StartTime == thirtyMinutes + 1
\* index.js:127 balance + 100
PayoutAmount == 100
\* index.js:866
maxIterations == 10
\* amounts the admin tool is asked to credit (suggestedAmounts, index.js:635)
Amounts == {50}

NoId == [src |-> "none", n |-> 0]
NoaaId(n) == [src |-> "noaa", n |-> n]

\* the alerts the weather feed can return (immutable per identifier)
Alert1 == [id |-> NoaaId(1), severity |-> Str(Extreme), areaDesc |-> Str(Tangipahoa)]
Alert2 == [id |-> NoaaId(2), severity |-> Str(Minor),
           areaDesc |-> Str(Tangipahoa \o <<";">> \o Orleans)]
\* an alert whose area names no county of the table
Alert3 == [id |-> NoaaId(3), severity |-> Str(Extreme), areaDesc |-> Str(Zip70401)]
\* an alert whose area names two counties that share one postal code
Alert4 == [id |-> NoaaId(4), severity |-> Str(Minor),
           areaDesc |-> Str(Orleans \o <<";">> \o Jefferson)]
NoAlert == [id |-> NoId, severity |-> Undefined, areaDesc |-> Undefined]

\* data.features of a 2xx feed response
Feeds == { <<>>, <<Alert1>>, <<Alert2>>, <<Alert1, Alert2>>,
           <<Alert3>>, <<Alert3, Alert3>>, <<Alert4>> }

\* contents of data/zip_to_county.json as Object.entries lists them.
\* index.js reads it both ways (mapAreaToZips by key, simulateDisaster by
\* postal code), so both orientations are possible contents of the file.
CountyKeyed == << <<Tangipahoa, Zip70401>>, <<Orleans, Zip70112>>,
                  <<Jefferson, Zip70112>> >>
ZipKeyed == << <<Zip70401, Tangipahoa>>, <<Zip70112, Orleans>> >>
Tables == {CountyKeyed}

VARIABLES
  zipToCounty,       \* the loaded lookup table
  smtpApiKey,        \* process.env.SMTP2GO_API_KEY is set
  now,               \* Date.now()
  users,             \* collection "users"
  processedAlerts,   \* identifiers of the documents of "processedAlerts"
  inv,               \* the running invocations, one per slot
  tasks,             \* the handleUserAlert promises of each invocation
  callLog,           \* history: what each invocation saw and returned
  dispatches,        \* history: every handleZipAlert call and its outcomes
  credited,          \* history: amount the admin tool added per user
  arg, ret           \* argument and result of a pure-function application

vars == <<zipToCounty, smtpApiKey, now, users, processedAlerts, inv, tasks,
          callLog, dispatches, credited, arg, ret>>

\* Object.entries(zipToCounty).filter(key in area).map(value)
mapAreaToZips(areaDesc) ==
  IF ~Truthy(areaDesc) THEN <<>>
  ELSE LET area == toLowerCase(areaDesc.chars)
           hit(e) == includes(area, toLowerCase(e[1]))
           sel == SelectSeq(zipToCounty, hit)
       IN  [i \in 1..Len(sel) |-> sel[i][2]]

NoArg == [f |-> "none", v |-> Undefined]
NoRet == [done |-> FALSE, val |-> FALSE]

\* fetched: the feed answered 2xx; outcome "threw": the call ended in failure
\* (an exception or an error response); status: the HTTP status the handler
\* set (0: none); marked: markers the call created; mailed: sendEmail was
\* called by sendCatastropheEmail; llm: the LLM provider was called; lacks:
\* the request came without one of its required inputs; checked: markers the
\* call read; unmarked: how many of them did not exist when read;
\* responses: responses sent
NoCall ==
  [kind |-> "none", fetched |-> FALSE, feed |-> <<>>, prior |-> {},
   outcome |-> "idle", error |-> "none", count |-> 0, wrote |-> {},
   status |-> 0, marked |-> {}, mailed |-> FALSE, llm |-> FALSE,
   listed |-> {}, notifiable |-> {}, lacks |-> FALSE,
   checked |-> 0, unmarked |-> 0,
   responses |-> 0]

IdleInv ==
  [kind |-> "none", pc |-> "idle", call |-> "none", feed |-> <<>>, i |-> 0,
   alert |-> NoAlert, zips |-> <<>>, j |-> 0, pay |-> FALSE,
   processedCount |-> 0, docs |-> <<>>, k |-> 0, amount |-> 0,
   iterationCount |-> 0, toolCalls |-> 0]

NoTask == [pc |-> "none", txnBalance |-> 0, stale |-> FALSE, ts |-> 0]
Settled == {"none", "fulfilled", "rejected"}

Init ==
  /\ zipToCounty \in Tables
  /\ smtpApiKey \in BOOLEAN
  /\ now = StartTime
  /\ users = [u \in Users |->
                [zip |-> Zip70401, status |-> "ACTIVE", balance |-> InitBalance,
                 lastAlertTimestamp |-> 0, lastAlertId |-> NoId, lastPayout |-> 0]]
  /\ processedAlerts = {}
  /\ inv = [s \in Slots |-> IdleInv]
  /\ tasks = [s \in Slots |-> [u \in Users |-> NoTask]]
  /\ callLog = [s \in Slots |-> NoCall]
  /\ dispatches = <<>>
  /\ credited = [u \in Users |-> 0]
  /\ arg = NoArg
  /\ ret = NoRet

\* ---------------------------------------------------------------------
\* History bookkeeping
\* ---------------------------------------------------------------------
Finished == { c \in Slots : callLog[c].outcome \in {"returned", "threw"} }

NewCall(kind) == [NoCall EXCEPT !.kind = kind, !.prior = Finished, !.outcome = "running"]

\* key of the handleZipAlert call invocation s is in
DKey(s) == <<s, inv[s].i, inv[s].j>>

\* mutant of HttpStatus: failures are answered with status 200 as well
HttpStatusAlways200(kind, err) ==
  IF kind = "disaster" THEN 0
  ELSE IF err = "validation" THEN 400
  ELSE 200

\* the status of the response: res.status(200) on success, res.status(400)
\* for a missing input, res.status(500) in the catch blocks; disaster is a
\* callable function and sets no status itself
HttpStatus(kind, err) ==
  IF kind = "disaster" THEN 0
  ELSE IF err = "none" THEN 200
  ELSE IF err = "validation" THEN 400
  ELSE 500

\* the invocation of record r has returned (err = "none") or failed
LogEnd(log, r, err) ==
  IF r.pc = "done"
  THEN [log EXCEPT ![r.call].outcome = IF err = "none" THEN "returned" ELSE "threw",
                   ![r.call].error = err,
                   ![r.call].count = r.processedCount,
                   ![r.call].responses = @ + 1,
                   ![r.call].status = HttpStatus(r.kind, err)]
  ELSE log

LogWrite(log, c, u) == [log EXCEPT ![c].wrote = @ \cup {u}]

CurAlert(r) == IF r.kind = "fetchNoaaAlerts" THEN r.feed[r.i] ELSE r.alert

\* a slot serves one invocation; slots are taken in order of arrival
CanStart(s) ==
  /\ inv[s].pc = "idle"
  /\ s = "s2" => inv["s1"].pc # "idle"

\* ---------------------------------------------------------------------
\* fetchNoaaAlerts -> fetchNoaaAlertsHandler (index.js:185-265)
\* ---------------------------------------------------------------------
\* "continue" / end of the for loop over data.features
\* mutant of NextAlert: the counter is incremented for skipped alerts too
NextAlertCountsSkipped(r, count) ==
  IF r.i < Len(r.feed)
  THEN [r EXCEPT !.processedCount = r.processedCount + 1, !.i = r.i + 1,
                 !.pc = "getMarker"]
  ELSE [r EXCEPT !.processedCount = r.processedCount + 1, !.pc = "done"]

\* processedCount++ and the next iteration of the loop over data.features
NextAlert(r, count) ==
  IF r.i < Len(r.feed)
  THEN [r EXCEPT !.processedCount = count, !.i = r.i + 1, !.pc = "getMarker"]
  ELSE [r EXCEPT !.processedCount = count, !.pc = "done"]

\* mutant of fetchNoaaAlerts: resp.ok is not tested, the body of an error
\* response is read as the feed
fetchNoaaAlertsIgnoreOk(s) ==
  /\ CanStart(s)
  /\ \E ok \in BOOLEAN, f \in Feeds :
       /\ inv' = [inv EXCEPT ![s] =
                    IF Len(f) = 0
                    THEN [IdleInv EXCEPT !.kind = "fetchNoaaAlerts", !.call = s,
                                         !.pc = "done"]
                    ELSE [IdleInv EXCEPT !.kind = "fetchNoaaAlerts", !.call = s,
                                         !.feed = f, !.i = 1, !.pc = "getMarker"]]
       /\ callLog' = LogEnd([callLog EXCEPT
                               ![s] = [NewCall("fetchNoaaAlerts") EXCEPT
                                         !.fetched = ok, !.feed = f]],
                            inv'[s], "none")
  /\ UNCHANGED <<zipToCounty, smtpApiKey, now, users, processedAlerts, tasks,
                 dispatches, credited, arg, ret>>

\* a request arrives; await fetch(...); resp.ok; data.features
fetchNoaaAlerts(s) ==
  /\ CanStart(s)
  /\ \E ok \in BOOLEAN :
       IF ~ok
       THEN /\ inv' = [inv EXCEPT ![s] = [IdleInv EXCEPT !.kind = "fetchNoaaAlerts",
                                                       !.call = s, !.pc = "done"]]
            /\ callLog' = LogEnd([callLog EXCEPT ![s] = NewCall("fetchNoaaAlerts")],
                                 inv'[s], "feed")
       ELSE \E f \in Feeds :
              /\ inv' = [inv EXCEPT ![s] =
                           IF Len(f) = 0
                           THEN [IdleInv EXCEPT !.kind = "fetchNoaaAlerts", !.call = s,
                                                !.pc = "done"]
                           ELSE [IdleInv EXCEPT !.kind = "fetchNoaaAlerts", !.call = s,
                                                !.feed = f, !.i = 1, !.pc = "getMarker"]]
              /\ callLog' = LogEnd([callLog EXCEPT
                                      ![s] = [NewCall("fetchNoaaAlerts") EXCEPT
                                                !.fetched = TRUE, !.feed = f]],
                                   inv'[s], "none")
  /\ UNCHANGED <<zipToCounty, smtpApiKey, now, users, processedAlerts, tasks,
                 dispatches, credited, arg, ret>>

\* mutant of GetMarker: the marker is read but never honoured
GetMarkerIgnored(s) ==
  /\ inv[s].pc = "getMarker"
  /\ inv' = [inv EXCEPT ![s].pc = "setMarker"]
  /\ UNCHANGED <<zipToCounty, smtpApiKey, now, users, processedAlerts, tasks,
                 callLog, dispatches, credited, arg, ret>>

\* processedAlerts.doc(alertId).get(); if (processed.exists) continue
GetMarker(s) ==
  /\ inv[s].pc = "getMarker"
  /\ inv' = [inv EXCEPT ![s] =
               IF CurAlert(@).id \in processedAlerts
               THEN NextAlert(@, @.processedCount)
               ELSE [@ EXCEPT !.pc = "setMarker"]]
  /\ callLog' = LogEnd([callLog EXCEPT
                          ![s].checked = @ + 1,
                          ![s].unmarked = IF CurAlert(inv[s]).id \in processedAlerts
                                          THEN @ ELSE @ + 1],
                       inv'[s], "none")
  /\ UNCHANGED <<zipToCounty, smtpApiKey, now, users, processedAlerts, tasks,
                 dispatches, credited, arg, ret>>

\* mutant of SetMarker: the marker is not written before the dispatch
SetMarkerSkipped(s) ==
  /\ inv[s].pc = "setMarker"
  /\ LET a == CurAlert(inv[s])
         zips == mapAreaToZips(a.areaDesc)
     IN  inv' = [inv EXCEPT ![s] =
                   IF Len(zips) = 0
                   THEN NextAlert(@, @.processedCount + 1)
                   ELSE [@ EXCEPT !.zips = zips, !.j = 1, !.pc = "lookup",
                                  !.pay = shouldSendPayout(a.severity)]]
  /\ callLog' = LogEnd(callLog, inv'[s], "none")
  /\ UNCHANGED <<zipToCounty, smtpApiKey, now, users, processedAlerts, tasks,
                 dispatches, credited, arg, ret>>

\* processedAlerts.doc(alertId).set(...); zips = mapAreaToZips(areaDesc)
SetMarker(s) ==
  /\ inv[s].pc = "setMarker"
  /\ processedAlerts' = processedAlerts \cup {CurAlert(inv[s]).id}
  /\ LET a == CurAlert(inv[s])
         zips == mapAreaToZips(a.areaDesc)
     IN  inv' = [inv EXCEPT ![s] =
                   IF Len(zips) = 0
                   THEN NextAlert(@, @.processedCount + 1)
                   ELSE [@ EXCEPT !.zips = zips, !.j = 1, !.pc = "lookup",
                                  !.pay = shouldSendPayout(a.severity)]]
  /\ callLog' = LogEnd([callLog EXCEPT ![s].marked = @ \cup {CurAlert(inv[s]).id}],
                       inv'[s], "none")
  /\ UNCHANGED <<zipToCounty, smtpApiKey, now, users, tasks, dispatches,
                 credited, arg, ret>>

\* ---------------------------------------------------------------------
\* handleZipAlert and handleUserAlert (index.js:63-183)
\* ---------------------------------------------------------------------
\* mutant of rateLimited: the comparison is inverted
rateLimitedInverted(lastAlertTimestamp, t) == t - lastAlertTimestamp > thirtyMinutes

\* src/unnamed/part_000:101-102  lastSent = user.lastAlertTimestamp || 0;
\* Date.now() - lastSent < 3000 * 60 * 1000
rateLimited000(lastAlertTimestamp, t) == t - lastAlertTimestamp < limit000

\* index.js:93-103  timeSinceLastAlert < thirtyMinutes
rateLimited(lastAlertTimestamp, t) == t - lastAlertTimestamp < thirtyMinutes

\* mutant of handleUserAlertEnter: the pay flag is not tested, every
\* eligible user goes through the payout transaction
handleUserAlertEnterAlwaysPay(data, pay) ==
  IF ~smtpApiKey THEN [NoTask EXCEPT !.pc = "rejected"]
  ELSE IF rateLimited(data.lastAlertTimestamp, now) THEN [NoTask EXCEPT !.pc = "fulfilled"]
  ELSE [NoTask EXCEPT !.pc = "txnRead"]

\* mutant of handleUserAlertEnter: the payout is started before the rate
\* limit is looked at
handleUserAlertEnterPayFirst(data, pay) ==
  IF ~smtpApiKey THEN [NoTask EXCEPT !.pc = "rejected"]
  ELSE IF pay THEN [NoTask EXCEPT !.pc = "txnRead"]
  ELSE IF rateLimited(data.lastAlertTimestamp, now) THEN [NoTask EXCEPT !.pc = "fulfilled"]
  ELSE [NoTask EXCEPT !.pc = "update", !.ts = now]

\* handleUserAlert up to its first await, run inside users.docs.map(...)
\* on the snapshot data of the query (index.js:66-123 / 136)
handleUserAlertEnter(data, pay) ==
  IF ~smtpApiKey THEN [NoTask EXCEPT !.pc = "rejected"]
  ELSE IF rateLimited(data.lastAlertTimestamp, now) THEN [NoTask EXCEPT !.pc = "fulfilled"]
  ELSE IF pay THEN [NoTask EXCEPT !.pc = "txnRead"]
  ELSE [NoTask EXCEPT !.pc = "update", !.ts = now]

\* what handleZipAlert does when it returns to its caller
AfterZip(r) ==
  IF r.kind = "fetchNoaaAlerts"
  THEN IF r.j < Len(r.zips)
       THEN [r EXCEPT !.j = r.j + 1, !.pc = "lookup"]
       ELSE NextAlert(r, r.processedCount + 1)
  ELSE [r EXCEPT !.pc = "done"]

NewDispatch(r, docs) ==
  [call |-> r.call, kind |-> r.kind, alert |-> CurAlert(r).id, zip |-> r.zips[r.j],
   pay |-> r.pay, start |-> now, docs |-> docs,
   seen |-> [u \in Users |-> users[u].lastAlertTimestamp],
   skipped |-> { u \in docs : smtpApiKey /\ rateLimited(users[u].lastAlertTimestamp, now) },
   wrote |-> {}, results |-> [u \in Users |-> "none"],
   emails |-> [u \in Users |-> 0], payouts |-> [u \in Users |-> 0],
   state |-> "running"]

\* key of the handleZipAlert call that invocation record r of slot s makes
KeyOf(s, r) == <<s, r.i, r.j>>

\* mutant of activeUsersInZip: the query has no filter on the postal code
activeUsersAnyZip(zip) == { u \in Users : users[u].status = "ACTIVE" }

\* mutant of activeUsersInZip: the query has no filter on the status
usersInZip(zip) == { u \in Users : users[u].zip = zip }

\* users.where("zip", "==", zip).where("status", "==", "ACTIVE") (index.js:158-161)
activeUsersInZip(zip) ==
  { u \in Users : users[u].zip = zip /\ users[u].status = "ACTIVE" }

\* the query is awaited, then the synchronous part of every handleUserAlert
\* runs (index.js:155-172); r is the caller's record
handleZipAlert(s, r, log) ==
  LET docs == activeUsersInZip(r.zips[r.j])
  IN  \E ok \in BOOLEAN :
        IF ~ok
        THEN /\ inv' = [inv EXCEPT ![s] = [r EXCEPT !.pc = "done"]]
             /\ callLog' = LogEnd(log, inv'[s], "lookup")
             /\ dispatches' = (KeyOf(s, r) :> [NewDispatch(r, {}) EXCEPT !.state = "threw"])
                                @@ dispatches
             /\ tasks' = tasks
        ELSE IF docs = {}
        THEN /\ inv' = [inv EXCEPT ![s] = AfterZip(r)]
             /\ callLog' = LogEnd(log, inv'[s], "none")
             /\ dispatches' = (KeyOf(s, r) :> [NewDispatch(r, {}) EXCEPT !.state = "returned"])
                                @@ dispatches
             /\ tasks' = tasks
        ELSE /\ inv' = [inv EXCEPT ![s] = [r EXCEPT !.pc = "await"]]
             /\ callLog' = log
             /\ dispatches' = (KeyOf(s, r) :> NewDispatch(r, docs)) @@ dispatches
             /\ tasks' = [tasks EXCEPT ![s] =
                            [u \in Users |-> IF u \in docs
                                             THEN handleUserAlertEnter(users[u], r.pay)
                                             ELSE NoTask]]

\* the query of a handleZipAlert called from the ingestion loop answers
Lookup(s) ==
  /\ inv[s].pc = "lookup"
  /\ handleZipAlert(s, inv[s], callLog)
  /\ UNCHANGED <<zipToCounty, smtpApiKey, now, users, processedAlerts,
                 credited, arg, ret>>

\* a write to the document of user u invalidates the transactions that have
\* read it and not yet committed
MarkStale(ts, u) ==
  [s \in Slots |-> [v \in Users |->
     IF v = u /\ ts[s][v].pc = "txnCommit" THEN [ts[s][v] EXCEPT !.stale = TRUE]
     ELSE ts[s][v]]]

\* t.get(doc.ref); balance || 0; new Date() (index.js:124-130)
TxnRead(s, u) ==
  /\ tasks[s][u].pc = "txnRead"
  /\ tasks' = [tasks EXCEPT ![s][u] = [@ EXCEPT !.pc = "txnCommit", !.stale = FALSE,
                                                !.txnBalance = users[u].balance]]
  /\ UNCHANGED <<zipToCounty, smtpApiKey, now, users, processedAlerts, inv, callLog, dispatches, credited, arg, ret>>

\* mutant of TxnCommit: the commit does not check that the document is
\* unchanged since it was read (a blind read-then-write)
TxnCommitBlind(s, u) ==
  /\ tasks[s][u].pc = "txnCommit"
  /\ users' = [users EXCEPT ![u].balance = tasks[s][u].txnBalance + PayoutAmount,
                            ![u].status = "PAID",
                            ![u].lastPayout = now]
  /\ tasks' = [MarkStale(tasks, u) EXCEPT ![s][u] = [@ EXCEPT !.pc = "update", !.ts = now]]
  /\ dispatches' = [dispatches EXCEPT ![DKey(s)].payouts[u] = @ + 1,
                                       ![DKey(s)].wrote = @ \cup {u}]
  /\ callLog' = LogWrite(callLog, inv[s].call, u)
  /\ UNCHANGED <<zipToCounty, smtpApiKey, now, processedAlerts, inv, credited, arg, ret>>

\* mutant of TxnCommit: a failure of the transaction is swallowed and
\* handleUserAlert goes on to the last-alert update and the email
TxnCommitSwallow(s, u) ==
  /\ tasks[s][u].pc = "txnCommit"
  /\ \E ok \in BOOLEAN :
       IF ~ok
       THEN /\ tasks' = [tasks EXCEPT ![s][u] = [@ EXCEPT !.pc = "update", !.ts = now]]
            /\ UNCHANGED <<users, dispatches, callLog>>
       ELSE IF tasks[s][u].stale
       THEN /\ tasks' = [tasks EXCEPT ![s][u].pc = "txnRead"]
            /\ UNCHANGED <<users, dispatches, callLog>>
       ELSE /\ users' = [users EXCEPT ![u].balance = tasks[s][u].txnBalance + PayoutAmount,
                                      ![u].status = "PAID",
                                      ![u].lastPayout = now]
            /\ tasks' = [MarkStale(tasks, u) EXCEPT
                           ![s][u] = [@ EXCEPT !.pc = "update", !.ts = now]]
            /\ dispatches' = [dispatches EXCEPT ![DKey(s)].payouts[u] = @ + 1,
                                                 ![DKey(s)].wrote = @ \cup {u}]
            /\ callLog' = LogWrite(callLog, inv[s].call, u)
  /\ UNCHANGED <<zipToCounty, smtpApiKey, now, processedAlerts, inv, credited, arg, ret>>

\* commit of db.runTransaction (index.js:123-131): fails, is retried when the
\* document changed since t.get, or applies the update atomically; then
\* handleUserAlert issues the last-alert update with Date.now()
TxnCommit(s, u) ==
  /\ tasks[s][u].pc = "txnCommit"
  /\ \E ok \in BOOLEAN :
       IF ~ok
       THEN /\ tasks' = [tasks EXCEPT ![s][u].pc = "rejected"]
            /\ UNCHANGED <<users, dispatches, callLog>>
       ELSE IF tasks[s][u].stale
       THEN /\ tasks' = [tasks EXCEPT ![s][u].pc = "txnRead"]
            /\ UNCHANGED <<users, dispatches, callLog>>
       ELSE /\ users' = [users EXCEPT ![u].balance = tasks[s][u].txnBalance + PayoutAmount,
                                      ![u].status = "PAID",
                                      ![u].lastPayout = now]
            /\ tasks' = [MarkStale(tasks, u) EXCEPT
                           ![s][u] = [@ EXCEPT !.pc = "update", !.ts = now]]
            /\ dispatches' = [dispatches EXCEPT ![DKey(s)].payouts[u] = @ + 1,
                                                 ![DKey(s)].wrote = @ \cup {u}]
            /\ callLog' = LogWrite(callLog, inv[s].call, u)
  /\ UNCHANGED <<zipToCounty, smtpApiKey, now, processedAlerts, inv, credited, arg, ret>>

\* mutant of UpdateAndSend: when the mail send fails the payout and the
\* last-alert update are undone
UpdateAndSendRollback(s, u) ==
  /\ tasks[s][u].pc = "update"
  /\ callLog' = LogWrite(callLog, inv[s].call, u)
  /\ \E ok \in BOOLEAN :
       IF ok
       THEN /\ users' = [users EXCEPT ![u].lastAlertTimestamp = tasks[s][u].ts,
                                      ![u].lastAlertId = CurAlert(inv[s]).id]
            /\ tasks' = [MarkStale(tasks, u) EXCEPT ![s][u].pc = "fulfilled"]
            /\ dispatches' = [dispatches EXCEPT ![DKey(s)].emails[u] = @ + 1,
                                                 ![DKey(s)].wrote = @ \cup {u}]
       ELSE /\ users' = [users EXCEPT
                           ![u].balance = IF inv[s].pay THEN @ - PayoutAmount ELSE @,
                           ![u].status = "ACTIVE"]
            /\ tasks' = [MarkStale(tasks, u) EXCEPT ![s][u].pc = "rejected"]
            /\ dispatches' = [dispatches EXCEPT ![DKey(s)].wrote = @ \cup {u}]
  /\ UNCHANGED <<zipToCounty, smtpApiKey, now, processedAlerts, inv, credited, arg, ret>>

\* doc.ref.update({lastAlertTimestamp, lastAlertId}) lands, then sendEmail:
\* the gateway answers 2xx or not (index.js:136-152, 17-44)
UpdateAndSend(s, u) ==
  /\ tasks[s][u].pc = "update"
  /\ users' = [users EXCEPT ![u].lastAlertTimestamp = tasks[s][u].ts,
                            ![u].lastAlertId = CurAlert(inv[s]).id]
  /\ callLog' = LogWrite(callLog, inv[s].call, u)
  /\ \E ok \in BOOLEAN :
       IF ok
       THEN /\ tasks' = [MarkStale(tasks, u) EXCEPT ![s][u].pc = "fulfilled"]
            /\ dispatches' = [dispatches EXCEPT ![DKey(s)].emails[u] = @ + 1,
                                                 ![DKey(s)].wrote = @ \cup {u}]
       ELSE /\ tasks' = [MarkStale(tasks, u) EXCEPT ![s][u].pc = "rejected"]
            /\ dispatches' = [dispatches EXCEPT ![DKey(s)].wrote = @ \cup {u}]
  /\ UNCHANGED <<zipToCounty, smtpApiKey, now, processedAlerts, inv, credited, arg, ret>>

\* mutant of PromiseAllSettled: Promise.all, which rejects on the first rejection
PromiseAll(ts) ==
  IF \E u \in Users : ts[u].pc = "rejected" THEN "rejected"
  ELSE IF \A u \in Users : ts[u].pc \in Settled THEN "fulfilled"
  ELSE "pending"

\* mutant of PromiseAllSettled: Promise.race, which settles with the first task
PromiseRace(ts) ==
  IF \E u \in Users : ts[u].pc \in {"fulfilled", "rejected"} THEN "fulfilled"
  ELSE "pending"

\* Promise.allSettled(users.docs.map(...)) (index.js:170-172)
PromiseAllSettled(ts) ==
  IF \A u \in Users : ts[u].pc \in Settled THEN "fulfilled" ELSE "pending"

\* the await of handleZipAlert resumes: results are logged and it returns
ZipDone(s) ==
  /\ inv[s].pc = "await"
  /\ PromiseAllSettled(tasks[s]) # "pending"
  /\ LET p == PromiseAllSettled(tasks[s])
     IN  /\ inv' = [inv EXCEPT ![s] = IF p = "fulfilled" THEN AfterZip(@)
                                      ELSE [@ EXCEPT !.pc = "done"]]
         /\ callLog' = LogEnd(callLog, inv'[s], IF p = "fulfilled" THEN "none" ELSE "user")
         /\ dispatches' = [dispatches EXCEPT
                             ![DKey(s)].results = [u \in Users |-> tasks[s][u].pc],
                             ![DKey(s)].state = IF p = "fulfilled" THEN "returned" ELSE "threw"]
  /\ tasks' = [tasks EXCEPT ![s] = [u \in Users |-> NoTask]]
  /\ UNCHANGED <<zipToCounty, smtpApiKey, now, users, processedAlerts, credited, arg, ret>>

\* ---------------------------------------------------------------------
\* simulateDisaster and disaster (index.js:267-316, 368-396)
\* ---------------------------------------------------------------------
\* zipToCounty[zip]
TableGet(zip) ==
  IF \E i \in 1..Len(zipToCounty) : zipToCounty[i][1] = zip
  THEN Str(zipToCounty[CHOOSE i \in 1..Len(zipToCounty) : zipToCounty[i][1] = zip][2])
  ELSE Undefined

AreaForZip(zip) == Str(<<"A","r","e","a"," ">> \o zip)
Unknown == Str(<<"U","n","k">>)

\* request parameters a caller can send
ZipInputs == {Undefined, Str(Zip70401), Str(Zip70112)}
SeverityInputs == {Undefined, Str(Extreme), Str(Minor)}

\* a request arrives (index.js:277-296): defaults, fakeAlert, pay, and the
\* query of handleZipAlert(zip, fakeAlert, pay) answers
simulateDisaster(s) ==
  /\ CanStart(s)
  /\ \E zipIn \in ZipInputs, sevIn \in SeverityInputs :
       LET zip == OrElse(zipIn, Str(Zip70401)).chars
           severity == OrElse(sevIn, Str(Extreme))
           fakeAlert == [id |-> [src |-> "demo", n |-> now], severity |-> severity,
                         areaDesc |-> OrElse(TableGet(zip), AreaForZip(zip))]
       IN  handleZipAlert(s, [IdleInv EXCEPT !.kind = "simulateDisaster", !.call = s,
                                             !.alert = fakeAlert, !.zips = <<zip>>, !.j = 1,
                                             !.pay = shouldSendPayout(severity)],
                          [callLog EXCEPT ![s] = NewCall("simulateDisaster")])
  /\ UNCHANGED <<zipToCounty, smtpApiKey, now, users, processedAlerts,
                 credited, arg, ret>>

\* mutant of disaster: the simulated alert goes through the dedup and gets a
\* marker
disasterMarked(s) ==
  /\ CanStart(s)
  /\ \E zipIn \in ZipInputs, sevIn \in SeverityInputs \cup {Null} :
       LET severity == IF sevIn = Undefined THEN Str(Extreme) ELSE sevIn
           zip == zipIn.chars
           fakeAlert == [id |-> [src |-> "sim", n |-> now], severity |-> severity,
                         areaDesc |-> OrElse(TableGet(zip), Unknown)]
       IN  IF ~Truthy(zipIn)
           THEN /\ inv' = [inv EXCEPT ![s] = [IdleInv EXCEPT !.kind = "disaster",
                                                           !.call = s, !.pc = "done"]]
                /\ callLog' = LogEnd([callLog EXCEPT
                                         ![s] = [NewCall("disaster") EXCEPT !.lacks = TRUE]],
                                     inv'[s], "validation")
                /\ UNCHANGED <<tasks, dispatches, processedAlerts>>
           ELSE /\ handleZipAlert(s, [IdleInv EXCEPT !.kind = "disaster", !.call = s,
                                                  !.alert = fakeAlert, !.zips = <<zip>>,
                                                  !.j = 1, !.pay = shouldSendPayout(severity)],
                               [callLog EXCEPT ![s] = NewCall("disaster")])
                /\ processedAlerts' = processedAlerts \cup {fakeAlert.id}
  /\ UNCHANGED <<zipToCounty, smtpApiKey, now, users, credited, arg, ret>>

\* index.js:368-390: severity defaults only when undefined; a missing zip is
\* rejected with invalid-argument before anything else happens
disaster(s) ==
  /\ CanStart(s)
  /\ \E zipIn \in ZipInputs, sevIn \in SeverityInputs \cup {Null} :
       LET severity == IF sevIn = Undefined THEN Str(Extreme) ELSE sevIn
           zip == zipIn.chars
           fakeAlert == [id |-> [src |-> "sim", n |-> now], severity |-> severity,
                         areaDesc |-> OrElse(TableGet(zip), Unknown)]
       IN  IF ~Truthy(zipIn)
           THEN /\ inv' = [inv EXCEPT ![s] = [IdleInv EXCEPT !.kind = "disaster",
                                                           !.call = s, !.pc = "done"]]
                /\ callLog' = LogEnd([callLog EXCEPT
                                         ![s] = [NewCall("disaster") EXCEPT !.lacks = TRUE]],
                                     inv'[s], "validation")
                /\ UNCHANGED <<tasks, dispatches>>
           ELSE handleZipAlert(s, [IdleInv EXCEPT !.kind = "disaster", !.call = s,
                                                  !.alert = fakeAlert, !.zips = <<zip>>,
                                                  !.j = 1, !.pay = shouldSendPayout(severity)],
                               [callLog EXCEPT ![s] = NewCall("disaster")])
  /\ UNCHANGED <<zipToCounty, smtpApiKey, now, users, processedAlerts,
                 credited, arg, ret>>

\* ---------------------------------------------------------------------
\* adminAgent: executeToolCall("auto_trigger_catastrophe") (index.js:668-775)
\* ---------------------------------------------------------------------
QueryInputs == {Undefined, Str(<<>>), Str(<<"q">>)}

\* a request arrives (index.js:493-498, 862-870): a missing query is answered
\* with 400; otherwise the loop is entered and the LLM is called
adminAgent(s) ==
  /\ CanStart(s)
  /\ \E query \in QueryInputs :
       LET r == [IdleInv EXCEPT !.kind = "adminAgent", !.call = s, !.pc = "done"]
           log == [callLog EXCEPT ![s] = [NewCall("adminAgent") EXCEPT
                                            !.lacks = (query = Undefined)]]
       IN  IF ~Truthy(query)
           THEN /\ inv' = [inv EXCEPT ![s] = r]
                /\ callLog' = LogEnd(log, r, "validation")
           ELSE /\ inv' = [inv EXCEPT ![s] = [r EXCEPT !.iterationCount = 1, !.pc = "llm"]]
                /\ callLog' = [log EXCEPT ![s].llm = TRUE]
  /\ UNCHANGED <<zipToCounty, smtpApiKey, now, users, processedAlerts, tasks,
                 dispatches, credited, arg, ret>>

\* the request is answered: its locals are gone
agentDone(r) == [r EXCEPT !.pc = "done", !.iterationCount = 0, !.toolCalls = 0]

\* mutant of agentLoop: the loop test lets one more iteration through
agentLoopOneMore(r) ==
  IF r.iterationCount <= maxIterations
  THEN [r EXCEPT !.iterationCount = @ + 1, !.pc = "llm"]
  ELSE agentDone(r)

\* after a tool result: while (continueLoop && iterationCount < maxIterations)
\* { iterationCount++; anthropic.messages.create(...) }, else the response
\* "Max iterations reached" (index.js:868-871, 942-944)
agentLoop(r) ==
  IF r.iterationCount < maxIterations
  THEN [r EXCEPT !.iterationCount = @ + 1, !.pc = "llm"]
  ELSE agentDone(r)

\* the LLM call of the iteration fails or answers (index.js:871-940): with
\* text only, which is the response; with a tool use of a read-only tool,
\* which executeToolCall runs (it reads the datastore and may fail) before
\* the loop goes on; or with a tool use of auto_trigger_catastrophe with
\* some zipCodes and amount. toolCalls counts the executeToolCall calls.
AgentResponse(s) ==
  /\ inv[s].pc = "llm"
  /\ LET r == inv[s]
         tool == [r EXCEPT !.toolCalls = @ + 1]
     IN  \/ /\ inv' = [inv EXCEPT ![s] = agentDone(r)]
            /\ \E err \in {"llm", "none"} : callLog' = LogEnd(callLog, inv'[s], err)
         \/ /\ r.zips # <<>> => r.iterationCount <= MaxToolsWithTrigger
            /\ \/ /\ inv' = [inv EXCEPT ![s] = agentDone(r)]
                  /\ callLog' = LogEnd(callLog, inv'[s], "tool")
               \/ /\ inv' = [inv EXCEPT ![s] = agentLoop(tool)]
                  /\ callLog' = LogEnd(callLog, inv'[s], "max")
         \/ /\ r.iterationCount <= MaxToolsWithTrigger
            /\ \E zip \in {Zip70401, Zip70112}, amount \in Amounts :
                 inv' = [inv EXCEPT ![s] =
                           [tool EXCEPT !.zips = <<zip>>, !.j = 1, !.amount = amount,
                                        !.pc = "query"]]
            /\ callLog' = callLog
  /\ UNCHANGED <<zipToCounty, smtpApiKey, now, users, processedAlerts, tasks,
                 dispatches, credited, arg, ret>>

\* end of the for loop over zipCodes: the tool returns and the loop goes on
AdminNextZip(r) ==
  IF r.j < Len(r.zips) THEN [r EXCEPT !.j = r.j + 1, !.pc = "query"]
  ELSE agentLoop(r)

\* index.js:677-680: the snapshot of the ACTIVE users of the postal code
AdminQuery(s) ==
  /\ inv[s].pc = "query"
  /\ LET r == inv[s]
         match(u) == users[u].zip = r.zips[r.j] /\ users[u].status = "ACTIVE"
         sel == SelectSeq(UserOrder, match)
         docs == [i \in 1..Len(sel) |-> [u |-> sel[i], balance |-> users[sel[i]].balance]]
     IN  inv' = [inv EXCEPT ![s] = IF Len(docs) = 0 THEN AdminNextZip(r)
                                   ELSE [r EXCEPT !.docs = docs, !.k = 1, !.pc = "update"]]
  /\ callLog' = LogEnd(callLog, inv'[s], "max")
  /\ UNCHANGED <<zipToCounty, smtpApiKey, now, users, processedAlerts, tasks, dispatches, credited, arg, ret>>

\* mutant of AdminUpdate: the whole snapshot document is written back, its
\* status included
AdminUpdateWholeDoc(s) ==
  /\ inv[s].pc = "update"
  /\ LET r == inv[s]
         doc == r.docs[r.k]
         newBalance == doc.balance + r.amount
     IN  /\ \E ok \in BOOLEAN :
              IF ok
              THEN /\ users' = [users EXCEPT ![doc.u].balance = newBalance,
                                             ![doc.u].status = "ACTIVE"]
                   /\ tasks' = MarkStale(tasks, doc.u)
                   /\ credited' = [credited EXCEPT ![doc.u] = @ + r.amount]
                   /\ inv' = [inv EXCEPT ![s] = IF r.k < Len(r.docs)
                                                THEN [r EXCEPT !.k = r.k + 1]
                                                ELSE AdminNextZip(r)]
                   /\ callLog' = LogEnd(LogWrite(callLog, r.call, doc.u), inv'[s], "max")
              ELSE /\ UNCHANGED <<users, tasks, credited>>
                   /\ inv' = [inv EXCEPT ![s] = IF r.k < Len(r.docs)
                                                THEN [r EXCEPT !.k = r.k + 1]
                                                ELSE AdminNextZip(r)]
                   /\ callLog' = LogEnd(callLog, inv'[s], "max")
  /\ UNCHANGED <<zipToCounty, smtpApiKey, now, processedAlerts, dispatches, arg, ret>>

\* index.js:683-713: newBalance = snapshot balance + amount; doc.ref.update
AdminUpdate(s) ==
  /\ inv[s].pc = "update"
  /\ LET r == inv[s]
         doc == r.docs[r.k]
         newBalance == doc.balance + r.amount
     IN  /\ \E ok \in BOOLEAN :
              IF ok
              THEN /\ users' = [users EXCEPT ![doc.u].balance = newBalance]
                   /\ tasks' = MarkStale(tasks, doc.u)
                   /\ credited' = [credited EXCEPT ![doc.u] = @ + r.amount]
                   /\ inv' = [inv EXCEPT ![s] = IF r.k < Len(r.docs)
                                                THEN [r EXCEPT !.k = r.k + 1]
                                                ELSE AdminNextZip(r)]
                   /\ callLog' = LogEnd(LogWrite(callLog, r.call, doc.u), inv'[s], "max")
              ELSE /\ UNCHANGED <<users, tasks, credited>>
                   /\ inv' = [inv EXCEPT ![s] = IF r.k < Len(r.docs)
                                                THEN [r EXCEPT !.k = r.k + 1]
                                                ELSE AdminNextZip(r)]
                   /\ callLog' = LogEnd(callLog, inv'[s], "max")
  /\ UNCHANGED <<zipToCounty, smtpApiKey, now, processedAlerts, dispatches, arg, ret>>

\* ---------------------------------------------------------------------
\* checkUsers and sendCatastropheEmail (index.js:318-366, 398-473)
\* ---------------------------------------------------------------------
\* index.js:345-348
canReceiveAlert(data) ==
  \/ data.lastAlertTimestamp = 0
  \/ now - data.lastAlertTimestamp > thirtyMinutes

\* a request arrives (index.js:328-365): the query fails (500) or the ACTIVE
\* users of the postal code are listed (200)
checkUsers(s) ==
  /\ CanStart(s)
  /\ \E zipIn \in ZipInputs, ok \in BOOLEAN :
       LET zip == OrElse(zipIn, Str(Zip70401)).chars
           docs == { u \in Users : users[u].zip = zip /\ users[u].status = "ACTIVE" }
           r == [IdleInv EXCEPT !.kind = "checkUsers", !.call = s, !.pc = "done"]
           log == [callLog EXCEPT ![s] = NewCall("checkUsers")]
       IN  /\ inv' = [inv EXCEPT ![s] = r]
           /\ callLog' =
                IF ok
                THEN LogEnd([log EXCEPT ![s].listed = docs,
                                        ![s].notifiable =
                                           { u \in docs : canReceiveAlert(users[u]) }],
                            r, "none")
                ELSE LogEnd(log, r, "lookup")
  /\ UNCHANGED <<zipToCounty, smtpApiKey, now, users, processedAlerts, tasks,
                 dispatches, credited, arg, ret>>

\* req.body fields: a string, or missing
FieldInputs == {Undefined, Str(<<"x">>)}
\* req.body.amount: missing, 0 or a positive number
AmountInputs ==
  {[given |-> FALSE, n |-> 0], [given |-> TRUE, n |-> 0]}
    \cup { [given |-> TRUE, n |-> a] : a \in Amounts }

\* mutant of sendCatastropheEmail: the API key is looked at before the
\* required fields
sendCatastropheEmailLateCheck(s) ==
  /\ CanStart(s)
  /\ \E userEmail \in FieldInputs, userName \in FieldInputs,
        catastropheType \in FieldInputs, amount \in AmountInputs, ok \in BOOLEAN :
       LET r == [IdleInv EXCEPT !.kind = "sendCatastropheEmail", !.call = s, !.pc = "done"]
           log == [callLog EXCEPT
                     ![s] = [NewCall("sendCatastropheEmail") EXCEPT
                               !.lacks = \/ Undefined \in {userEmail, userName, catastropheType}
                                         \/ ~amount.given]]
           missing == \/ ~Truthy(userEmail) \/ ~Truthy(userName)
                      \/ ~Truthy(catastropheType)
                      \/ ~amount.given \/ amount.n = 0
       IN  /\ inv' = [inv EXCEPT ![s] = r]
           /\ callLog' =
                IF ~smtpApiKey THEN LogEnd(log, r, "config")
                ELSE IF missing THEN LogEnd(log, r, "validation")
                ELSE LogEnd([log EXCEPT ![s].mailed = TRUE], r,
                            IF ok THEN "none" ELSE "mail")
  /\ UNCHANGED <<zipToCounty, smtpApiKey, now, users, processedAlerts, tasks,
                 dispatches, credited, arg, ret>>

\* a request arrives (index.js:408-472): 400 when a required field is missing
\* or falsy, 500 when the API key is missing or sendEmail throws, else 200
sendCatastropheEmail(s) ==
  /\ CanStart(s)
  /\ \E userEmail \in FieldInputs, userName \in FieldInputs,
        catastropheType \in FieldInputs, amount \in AmountInputs, ok \in BOOLEAN :
       LET r == [IdleInv EXCEPT !.kind = "sendCatastropheEmail", !.call = s, !.pc = "done"]
           log == [callLog EXCEPT
                     ![s] = [NewCall("sendCatastropheEmail") EXCEPT
                               !.lacks = \/ Undefined \in {userEmail, userName, catastropheType}
                                         \/ ~amount.given]]
           missing == \/ ~Truthy(userEmail) \/ ~Truthy(userName)
                      \/ ~Truthy(catastropheType)
                      \/ ~amount.given \/ amount.n = 0
       IN  /\ inv' = [inv EXCEPT ![s] = r]
           /\ callLog' =
                IF missing THEN LogEnd(log, r, "validation")
                ELSE IF ~smtpApiKey THEN LogEnd(log, r, "config")
                ELSE LogEnd([log EXCEPT ![s].mailed = TRUE], r,
                            IF ok THEN "none" ELSE "mail")
  /\ UNCHANGED <<zipToCounty, smtpApiKey, now, users, processedAlerts, tasks,
                 dispatches, credited, arg, ret>>

\* 30 minutes pass.  An invocation lasts at most the function timeout, far
\* less than one time unit, so the clock value is the same throughout it.
\* Only the time between two invocations is observable: the clock reads
\* StartTime at the first invocation, and nothing reads it after the last.
Tick ==
  /\ now < StartTime + MaxTicks
  /\ \A s \in Slots : inv[s].pc \in {"idle", "done"}
  /\ \E s \in Slots : inv[s].pc = "done"
  /\ \E s \in Slots : inv[s].pc = "idle"
  /\ now' = now + 1
  /\ UNCHANGED <<zipToCounty, smtpApiKey, users, processedAlerts, inv, tasks, callLog, dispatches, credited, arg, ret>>

Next ==
  \/ \E s \in Slots : fetchNoaaAlerts(s)
  \/ \E s \in Slots : GetMarker(s)
  \/ \E s \in Slots : SetMarker(s)
  \/ \E s \in Slots : Lookup(s)
  \/ \E s \in Slots, u \in Users : TxnRead(s, u)
  \/ \E s \in Slots, u \in Users : TxnCommit(s, u)
  \/ \E s \in Slots, u \in Users : UpdateAndSend(s, u)
  \/ \E s \in Slots : ZipDone(s)
  \/ \E s \in Slots : simulateDisaster(s)
  \/ \E s \in Slots : disaster(s)
  \/ \E s \in Slots : adminAgent(s)
  \/ \E s \in Slots : AgentResponse(s)
  \/ \E s \in Slots : checkUsers(s)
  \/ \E s \in Slots : sendCatastropheEmail(s)
  \/ \E s \in Slots : AdminQuery(s)
  \/ \E s \in Slots : AdminUpdate(s)
  \/ Tick

Spec == Init /\ [][Next]_vars

\* the same program started when every user was alerted just now, by a
\* deployment that had the API key or not
InitRecent ==
  /\ zipToCounty \in Tables
  /\ smtpApiKey \in BOOLEAN
  /\ now = StartTime
  /\ users = [u \in Users |->
                [zip |-> Zip70401, status |-> "ACTIVE", balance |-> InitBalance,
                 lastAlertTimestamp |-> StartTime, lastAlertId |-> NoaaId(0),
                 lastPayout |-> 0]]
  /\ processedAlerts = {NoaaId(0)}
  /\ inv = [s \in Slots |-> IdleInv]
  /\ tasks = [s \in Slots |-> [u \in Users |-> NoTask]]
  /\ callLog = [s \in Slots |-> NoCall]
  /\ dispatches = <<>>
  /\ credited = [u \in Users |-> 0]
  /\ arg = NoArg
  /\ ret = NoRet

SpecRecent == InitRecent /\ [][Next]_vars

\* the same program with the two users in different postal codes
InitTwoZips ==
  /\ zipToCounty \in Tables
  /\ smtpApiKey \in BOOLEAN
  /\ now = StartTime
  /\ users = [u \in Users |->
                [zip |-> IF u = "u1" THEN Zip70401 ELSE Zip70112,
                 status |-> "ACTIVE", balance |-> InitBalance,
                 lastAlertTimestamp |-> 0, lastAlertId |-> NoId, lastPayout |-> 0]]
  /\ processedAlerts = {}
  /\ inv = [s \in Slots |-> IdleInv]
  /\ tasks = [s \in Slots |-> [u \in Users |-> NoTask]]
  /\ callLog = [s \in Slots |-> NoCall]
  /\ dispatches = <<>>
  /\ credited = [u \in Users |-> 0]
  /\ arg = NoArg
  /\ ret = NoRet

SpecTwoZips == InitTwoZips /\ [][Next]_vars

\* the same program when data/zip_to_county.json is keyed by postal code, as
\* simulateDisaster and disaster read it
InitZipKeyed ==
  /\ zipToCounty = ZipKeyed
  /\ smtpApiKey \in BOOLEAN
  /\ now = StartTime
  /\ users = [u \in Users |->
                [zip |-> Zip70401, status |-> "ACTIVE", balance |-> InitBalance,
                 lastAlertTimestamp |-> 0, lastAlertId |-> NoId, lastPayout |-> 0]]
  /\ processedAlerts = {}
  /\ inv = [s \in Slots |-> IdleInv]
  /\ tasks = [s \in Slots |-> [u \in Users |-> NoTask]]
  /\ callLog = [s \in Slots |-> NoCall]
  /\ dispatches = <<>>
  /\ credited = [u \in Users |-> 0]
  /\ arg = NoArg
  /\ ret = NoRet

SpecZipKeyed == InitZipKeyed /\ [][Next]_vars

\* the program when only adminAgent requests arrive; every call the handler
\* awaits (the LLM provider, the datastore) settles
AgentContinue(s) == AgentResponse(s) \/ AdminQuery(s) \/ AdminUpdate(s)

NextAgent ==
  \/ \E s \in Slots : adminAgent(s)
  \/ \E s \in Slots : AgentResponse(s)
  \/ \E s \in Slots : AdminQuery(s)
  \/ \E s \in Slots : AdminUpdate(s)

SpecAgent ==
  Init /\ [][NextAgent]_vars /\ \A s \in Slots : WF_vars(AgentContinue(s))

\* ---------------------------------------------------------------------
\* Pure functions applied to enumerated arguments
\* ---------------------------------------------------------------------
toUpperChar(c) ==
  IF \E i \in 1..Len(LowerCase) : LowerCase[i] = c
  THEN UpperCase[CHOOSE i \in 1..Len(LowerCase) : LowerCase[i] = c]
  ELSE c

\* every spelling of the word w in upper and lower case letters
CaseVariants(w) ==
  { [i \in 1..Len(w) |-> IF m[i] THEN toUpperChar(w[i]) ELSE w[i]] :
      m \in [1..Len(w) -> BOOLEAN] }

SeverityArgs ==
  {Null, Undefined}
    \cup { Str(w) : w \in CaseVariants(extreme) \cup CaseVariants(severe) }
    \cup { Str(<<>>), Str(Minor), Str(<<"M","o","d","e","r","a","t","e">>),
           Str(<<"U","n","k","n","o","w","n">>), Str(extreme \o <<" ">>),
           Str(<<" ">> \o severe), Str(<<"s","e","v","e","r">>),
           Str(severe \o <<"l","y">>), Str(<<"e">>), Str(extreme \o severe) }

InitPure ==
  /\ zipToCounty \in Tables
  /\ smtpApiKey = TRUE
  /\ now = StartTime
  /\ users = [u \in Users |->
                [zip |-> Zip70401, status |-> "ACTIVE", balance |-> InitBalance,
                 lastAlertTimestamp |-> 0, lastAlertId |-> NoId, lastPayout |-> 0]]
  /\ processedAlerts = {}
  /\ inv = [s \in Slots |-> IdleInv]
  /\ tasks = [s \in Slots |-> [u \in Users |-> NoTask]]
  /\ callLog = [s \in Slots |-> NoCall]
  /\ dispatches = <<>>
  /\ credited = [u \in Users |-> 0]
  /\ arg \in { [f |-> "shouldSendPayout", v |-> v] : v \in SeverityArgs }
  /\ ret = NoRet

ApplyShouldSendPayout ==
  /\ arg.f = "shouldSendPayout"
  /\ ~ret.done
  /\ ret' = [done |-> TRUE, val |-> shouldSendPayout(arg.v)]
  /\ UNCHANGED <<zipToCounty, smtpApiKey, now, users, processedAlerts, inv, tasks,
                 callLog, dispatches, credited, arg>>

NextPure ==
  \/ ApplyShouldSendPayout

SpecPure == InitPure /\ [][NextPure]_vars

\* the rate-limit decisions of the three places that take one, for a user
\* record with any lastAlertTimestamp up to now (0: never alerted)
InitElapsed ==
  /\ zipToCounty \in Tables
  /\ smtpApiKey = TRUE
  /\ now = MaxNow
  /\ users = [u \in Users |->
                [zip |-> Zip70401, status |-> "ACTIVE", balance |-> InitBalance,
                 lastAlertTimestamp |-> 0, lastAlertId |-> NoId, lastPayout |-> 0]]
  /\ processedAlerts = {}
  /\ inv = [s \in Slots |-> IdleInv]
  /\ tasks = [s \in Slots |-> [u \in Users |-> NoTask]]
  /\ callLog = [s \in Slots |-> NoCall]
  /\ dispatches = <<>>
  /\ credited = [u \in Users |-> 0]
  /\ arg \in { [f |-> f, v |-> [lastAlertTimestamp |-> l]] :
                f \in {"handleUserAlert000", "checkUsers"}, l \in 0..MaxNow }
  /\ ret = NoRet

\* the handleUserAlert of src/unnamed/part_000 decides whether to skip
ApplyRateLimit000 ==
  /\ arg.f = "handleUserAlert000"
  /\ ~ret.done
  /\ ret' = [done |-> TRUE,
             val |-> [skip |-> rateLimited000(arg.v.lastAlertTimestamp, now)]]
  /\ UNCHANGED <<zipToCounty, smtpApiKey, now, users, processedAlerts, inv, tasks,
                 callLog, dispatches, credited, arg>>

\* checkUsers computes canReceiveAlert for the record, and handleUserAlert
\* of index.js decides whether to skip it
ApplyCanReceiveAlert ==
  /\ arg.f = "checkUsers"
  /\ ~ret.done
  /\ ret' = [done |-> TRUE,
             val |-> [canReceiveAlert |-> canReceiveAlert(arg.v),
                      skip |-> rateLimited(arg.v.lastAlertTimestamp, now)]]
  /\ UNCHANGED <<zipToCounty, smtpApiKey, now, users, processedAlerts, inv, tasks,
                 callLog, dispatches, credited, arg>>

NextElapsed ==
  \/ ApplyRateLimit000
  \/ ApplyCanReceiveAlert

SpecElapsed == InitElapsed /\ [][NextElapsed]_vars

\* ---------------------------------------------------------------------
\* Properties
\* ---------------------------------------------------------------------
DKeys == DOMAIN dispatches

RECURSIVE Total(_, _, _)
\* number of emails ("emails") or payouts ("payouts") the dispatches D gave u
Total(D, what, u) ==
  IF D = {} THEN 0
  ELSE LET d == CHOOSE x \in D : TRUE
       IN  dispatches[d][what][u] + Total(D \ {d}, what, u)

Ingested(c) == callLog[c].kind = "fetchNoaaAlerts" /\ callLog[c].fetched

\* C1: when an ingestion call has returned and a second call, started after
\* it, fetches the same feed content, the second call processes nothing: its
\* count stays 0, it never writes a marker or starts a dispatch, sends no
\* email and mutates no user.
C1_SecondRunProcessesNothing ==
  \A c1, c2 \in Slots :
    ( /\ Ingested(c1) /\ callLog[c1].outcome = "returned"
      /\ Ingested(c2) /\ c1 \in callLog[c2].prior
      /\ callLog[c2].feed = callLog[c1].feed )
    => /\ inv[c2].processedCount = 0
       /\ callLog[c2].count = 0
       /\ callLog[c2].outcome # "threw"
       /\ inv[c2].pc \in {"getMarker", "done"}
       /\ \A d \in DKeys : d[1] # c2
       /\ callLog[c2].wrote = {}

C1_Witness ==
  \E c1, c2 \in Slots :
    /\ Ingested(c1) /\ callLog[c1].outcome = "returned" /\ callLog[c1].count = 2
    /\ Ingested(c2) /\ c1 \in callLog[c2].prior
    /\ callLog[c2].feed = callLog[c1].feed
    /\ callLog[c2].outcome = "returned" /\ callLog[c2].count = 0
    /\ \E u \in Users : Total(DKeys, "emails", u) = 1

\* C2: each feed alert identifier is dispatched (handleZipAlert called for
\* it) by at most one invocation, whatever the interleaving of the
\* invocations that see it.
C2_OneInvocationDispatches ==
  \A d1, d2 \in DKeys :
    (dispatches[d1].alert = dispatches[d2].alert /\ dispatches[d1].alert.src = "noaa")
    => d1[1] = d2[1]

\* C3: two handleZipAlert calls for a user's postal code made within 30
\* minutes of each other deliver at most one email and at most one payout to
\* that user.
C3_OneDeliveryPerWindow ==
  \A u \in Users : \A d1, d2 \in DKeys :
    ( /\ d1 # d2
      /\ dispatches[d1].zip = users[u].zip /\ dispatches[d2].zip = users[u].zip
      /\ dispatches[d1].start - dispatches[d2].start < thirtyMinutes
      /\ dispatches[d2].start - dispatches[d1].start < thirtyMinutes )
    => /\ dispatches[d1].emails[u] + dispatches[d2].emails[u] <= 1
       /\ dispatches[d1].payouts[u] + dispatches[d2].payouts[u] <= 1

\* C4: payout transactions on one user never lose an update: as long as only
\* payout transactions have written the balance, it is the initial balance
\* plus 100 per committed payout (plus 200 after two concurrent ones) and
\* the status is PAID.
C4_NoLostPayout ==
  \A u \in Users :
    credited[u] = 0 =>
      /\ users[u].balance = InitBalance + PayoutAmount * Total(DKeys, "payouts", u)
      /\ Total(DKeys, "payouts", u) > 0 => users[u].status = "PAID"

\* two overlapping handleUserAlert executions have both committed their payout
C4_Witness ==
  \E u \in Users :
    /\ \A s \in Slots : tasks[s][u].pc = "update" /\ inv[s].pay
    /\ Total(DKeys, "payouts", u) = 2
    /\ users[u].balance = InitBalance + 2 * PayoutAmount
    /\ users[u].status = "PAID"

Simulators == {"simulateDisaster", "disaster"}

\* the dispatch d has returned and none of its users failed
Clean(d) ==
  /\ dispatches[d].state = "returned"
  /\ \A u \in dispatches[d].docs : dispatches[d].results[u] = "fulfilled"

\* C5: when an ingestion run and a manual simulation both dispatch a
\* qualifying alert to the postal code of the same user, in any interleaving,
\* the user's balance rises by exactly 100.
C5_NoDoubleCredit ==
  \A u \in Users : \A d1, d2 \in DKeys :
    ( /\ dispatches[d1].kind = "fetchNoaaAlerts" /\ dispatches[d2].kind \in Simulators
      /\ dispatches[d1].zip = users[u].zip /\ dispatches[d2].zip = users[u].zip
      /\ dispatches[d1].pay /\ dispatches[d2].pay
      /\ Clean(d1) /\ Clean(d2)
      /\ credited[u] = 0 )
    => users[u].balance = InitBalance + PayoutAmount

\* C6: an admin-triggered credit of amount and a dispatcher payout on the
\* same user never lose an update: once both are applied the balance is the
\* initial balance plus 100 plus amount.
C6_AdminCreditNotLost ==
  \A u \in Users :
    (Total(DKeys, "payouts", u) = 1 /\ credited[u] \in Amounts)
    => users[u].balance = InitBalance + PayoutAmount + credited[u]

\* C7: shouldSendPayout(severity) is true exactly when severity is a string
\* that spells "extreme" or "severe" in some mix of upper and lower case; it
\* is false for every other string, the empty string, null and undefined.
C7_PayoutPolicy ==
  (arg.f = "shouldSendPayout" /\ ret.done)
  => ret.val = ( /\ arg.v.type = "string"
                 /\ arg.v.chars \in CaseVariants(extreme) \cup CaseVariants(severe) )

C7_Witness ==
  /\ arg = [f |-> "shouldSendPayout", v |-> Str(<<"S","e","V","E","r","e">>)]
  /\ ret = [done |-> TRUE, val |-> TRUE]

\* C8: a user whose handleUserAlert fails does not stop handleZipAlert:
\* when the call ends every user it looked up has settled, each user that
\* neither failed nor was rate limited has been sent its email, and the
\* failure is not thrown to the caller.
C8_FailureIsolated ==
  /\ \A c \in Slots : callLog[c].error # "user"
  /\ \A d \in DKeys :
       dispatches[d].state # "running" =>
         /\ dispatches[d].state = "threw" => dispatches[d].docs = {}
         /\ \A u \in dispatches[d].docs :
              /\ dispatches[d].results[u] \in {"fulfilled", "rejected"}
              /\ (dispatches[d].results[u] = "fulfilled" /\ u \notin dispatches[d].skipped)
                   => dispatches[d].emails[u] = 1

\* one of two users failed after the other was notified, or before: the
\* other is notified and the call went on to return
C8_Witness ==
  \E d \in DKeys :
    /\ dispatches[d].state = "returned"
    /\ dispatches[d].docs = Users
    /\ dispatches[d].results["u1"] = "rejected"
    /\ dispatches[d].results["u2"] = "fulfilled"
    /\ dispatches[d].emails["u2"] = 1
    /\ callLog[d[1]].outcome = "returned"

\* values of the sequence zs
Range(zs) == { zs[i] : i \in 1..Len(zs) }

\* C9: a single ingestion run, from the initial state and without failures,
\* whose feed holds one new alert of qualifying severity leaves a marker for
\* the alert and, for each ACTIVE user of a postal code the alert maps to:
\* balance + 100, status PAID, lastAlertTimestamp and lastAlertId set to
\* this alert, and exactly one email.
C9_EndToEnd ==
  \A c \in Slots :
    ( /\ Ingested(c) /\ callLog[c].outcome = "returned"
      /\ \A c2 \in Slots \ {c} : callLog[c2].outcome = "idle"
      /\ Len(callLog[c].feed) = 1
      /\ shouldSendPayout(callLog[c].feed[1].severity)
      /\ smtpApiKey
      /\ \A d \in DKeys : Clean(d) )
    => LET a == callLog[c].feed[1]
       IN  /\ a.id \in processedAlerts
           /\ callLog[c].count = 1
           /\ \A u \in Users :
                users[u].zip \in Range(mapAreaToZips(a.areaDesc)) =>
                  /\ users[u].balance = InitBalance + PayoutAmount
                  /\ users[u].status = "PAID"
                  /\ users[u].lastAlertId = a.id
                  /\ \E d \in DKeys :
                       /\ d[1] = c /\ dispatches[d].zip = users[u].zip
                       /\ users[u].lastAlertTimestamp = dispatches[d].start
                  /\ Total(DKeys, "emails", u) = 1

C9_Witness ==
  /\ Ingested("s1") /\ callLog["s1"].outcome = "returned"
  /\ callLog["s2"].outcome = "idle"
  /\ callLog["s1"].feed = <<Alert1>>
  /\ \A d \in DKeys : Clean(d)
  /\ users["u1"].status = "PAID" /\ users["u1"].balance = InitBalance + PayoutAmount
  /\ users["u1"].lastAlertId = Alert1.id
  /\ Total(DKeys, "emails", "u1") = 1

\* this step is the last-alert update and mail send of a pay = false execution
NoPayStep(s, u) ==
  /\ tasks[s][u].pc = "update"
  /\ tasks'[s][u].pc \in {"fulfilled", "rejected"}
  /\ ~inv[s].pay

\* C10: a handleUserAlert execution with pay = false for an eligible user
\* never runs the payout transaction and leaves balance and status as they
\* are; it sets lastAlertTimestamp to the current time and lastAlertId to the
\* alert's id, and when it succeeds it has sent exactly one email.
C10_NoPayFrame ==
  /\ [](\A d \in DKeys : ~dispatches[d].pay =>
          \A u \in Users : /\ dispatches[d].payouts[u] = 0
                           /\ dispatches[d].emails[u] <= 1)
  /\ [][\A s \in Slots, u \in Users :
          NoPayStep(s, u) =>
            /\ users'[u].balance = users[u].balance
            /\ users'[u].status = users[u].status
            /\ users'[u].lastPayout = users[u].lastPayout
            /\ users'[u].lastAlertTimestamp = now
            /\ users'[u].lastAlertId = CurAlert(inv[s]).id
            /\ tasks'[s][u].pc = "fulfilled" => dispatches'[DKey(s)].emails[u] = 1
       ]_vars

C10_Witness ==
  \E d \in DKeys : \E u \in dispatches[d].docs \ dispatches[d].skipped :
    /\ ~dispatches[d].pay
    /\ dispatches[d].results[u] = "fulfilled"
    /\ dispatches[d].emails[u] = 1
    /\ users[u].status = "ACTIVE" /\ users[u].balance = InitBalance
    /\ users[u].lastAlertId = dispatches[d].alert
    /\ users[u].lastAlertTimestamp = dispatches[d].start

\* the user u was inside the 30-minute window when handleUserAlert got its
\* document in dispatch d
InWindow(d, u) ==
  /\ u \in dispatches[d].docs
  /\ dispatches[d].start - dispatches[d].seen[u] < thirtyMinutes

C12_FeedErrorAborts ==
  \A c \in Slots :
    (callLog[c].kind = "fetchNoaaAlerts" /\ ~callLog[c].fetched) =>
      /\ inv[c].pc = "done"
      /\ callLog[c].outcome = "threw" /\ callLog[c].error = "feed"
      /\ callLog[c].marked = {}
      /\ callLog[c].wrote = {}
      /\ callLog[c].count = 0
      /\ \A d \in DKeys : d[1] # c

\* the feed failed for a call made after another call had processed alerts
C12_Witness ==
  \E c, c1 \in Slots :
    /\ callLog[c].kind = "fetchNoaaAlerts" /\ ~callLog[c].fetched
    /\ callLog[c].outcome = "threw"
    /\ c1 \in callLog[c].prior /\ callLog[c1].marked # {}
    /\ processedAlerts = callLog[c1].marked

\* C13: a failure while dispatching one postal code of one alert does not
\* abort the ingestion: when the call ends it has returned its count, every
\* alert of the feed has its marker, and every postal code of every alert the
\* call marked has been dispatched.
C13_LookupFailureContinues ==
  \A c \in Slots :
    (Ingested(c) /\ inv[c].pc = "done") =>
      /\ callLog[c].outcome = "returned"
      /\ \A i \in 1..Len(callLog[c].feed) :
           LET a == callLog[c].feed[i]
           IN  /\ a.id \in processedAlerts
               /\ a.id \in callLog[c].marked =>
                    \A zip \in Range(mapAreaToZips(a.areaDesc)) :
                      \E d \in DKeys : /\ d[1] = c
                                        /\ dispatches[d].alert = a.id
                                        /\ dispatches[d].zip = zip

\* C14: with the API key missing, a call that had mail to send (one of its
\* dispatches found an ACTIVE user outside the 30-minute window) ends in
\* failure, never in success.
C14_MissingKeySurfaces ==
  \A d \in DKeys :
    ( /\ ~smtpApiKey
      /\ \E u \in dispatches[d].docs : ~InWindow(d, u)
      /\ inv[d[1]].pc = "done" )
    => callLog[d[1]].outcome = "threw"

\* C15: a disaster, sendCatastropheEmail or adminAgent call that comes without
\* a required input is rejected as a client error before any side effect: it
\* looks up and writes no user, sends no email and calls no LLM.
C15_ValidationFirst ==
  \A c \in Slots :
    ( /\ callLog[c].kind \in {"disaster", "sendCatastropheEmail", "adminAgent"}
      /\ callLog[c].lacks )
    => /\ inv[c].pc = "done"
       /\ callLog[c].outcome = "threw" /\ callLog[c].error = "validation"
       /\ callLog[c].kind # "disaster" => callLog[c].status = 400
       /\ \A d \in DKeys : d[1] # c
       /\ callLog[c].wrote = {}
       /\ ~callLog[c].mailed
       /\ ~callLog[c].llm

\* two of the three operations were called without a required input
C15_Witness ==
  /\ callLog["s1"].kind = "sendCatastropheEmail" /\ callLog["s1"].lacks
  /\ callLog["s1"].status = 400
  /\ callLog["s2"].kind = "adminAgent" /\ callLog["s2"].lacks
  /\ callLog["s2"].status = 400
  /\ \A u \in Users : users[u].balance = InitBalance

HttpEndpoints == {"fetchNoaaAlerts", "simulateDisaster", "checkUsers"}

\* C16 as stated: on failure fetchNoaaAlerts, simulateDisaster and checkUsers
\* respond with status 200 (and success:false).
C16_FailureStatus200 ==
  \A c \in Slots :
    (callLog[c].kind \in HttpEndpoints /\ callLog[c].outcome = "threw")
    => callLog[c].status = 200

\* C16 amended: on failure fetchNoaaAlerts, simulateDisaster and checkUsers
\* respond with status 500 (and success:false); status 200 is the answer of
\* a call that succeeded.
C16_FailureStatus500 ==
  \A c \in Slots :
    callLog[c].kind \in HttpEndpoints =>
      /\ callLog[c].outcome = "threw" => callLog[c].status = 500
      /\ callLog[c].outcome = "returned" => callLog[c].status = 200
      /\ callLog[c].outcome \in {"idle", "running"} => callLog[c].status = 0

\* an ingestion call failed on the feed and a simulation on its user lookup
C16_Witness ==
  \E c1, c2 \in Slots :
    /\ callLog[c1].kind = "fetchNoaaAlerts" /\ callLog[c1].error = "feed"
    /\ callLog[c2].kind \in {"simulateDisaster", "checkUsers"}
    /\ callLog[c2].error = "lookup"
    /\ callLog[c1].status = 500 /\ callLog[c2].status = 500

\* C17: the marker of an alert is written before the first dispatch for it
\* starts, and once an invocation has written it, however that invocation
\* ends, an ingestion run started after it skips the alert: it neither
\* marks nor dispatches it.
C17_MarkerBeforeDispatch ==
  /\ \A c \in Slots :
       (inv[c].kind = "fetchNoaaAlerts" /\ inv[c].pc \in {"lookup", "await"})
       => CurAlert(inv[c]).id \in processedAlerts
  /\ \A d \in DKeys :
       dispatches[d].kind = "fetchNoaaAlerts" =>
         /\ dispatches[d].alert \in processedAlerts
         /\ dispatches[d].alert \in callLog[d[1]].marked
  /\ \A c1, c2 \in Slots :
       c1 \in callLog[c2].prior =>
         \A a \in callLog[c1].marked :
           /\ a \in processedAlerts
           /\ a \notin callLog[c2].marked
           /\ \A d \in DKeys : d[1] = c2 => dispatches[d].alert # a

\* a run failed in the middle of its dispatch; the next run, on the same
\* feed, skipped the alert
C17_Witness ==
  \E c1, c2 \in Slots :
    /\ Ingested(c1) /\ callLog[c1].error = "lookup" /\ callLog[c1].marked # {}
    /\ Ingested(c2) /\ c1 \in callLog[c2].prior
    /\ callLog[c2].feed = callLog[c1].feed /\ Len(callLog[c1].feed) = 1
    /\ callLog[c2].outcome = "returned" /\ callLog[c2].count = 0
    /\ \A d \in DKeys : d[1] # c2

\* the execution of handleUserAlert for u in dispatch d committed its payout
\* and then failed: its mail send threw
MailFailedAfterPayout(d, u) ==
  /\ dispatches[d].payouts[u] = 1
  /\ IF dispatches[d].state = "running"
     THEN tasks[d[1]][u].pc = "rejected"
     ELSE dispatches[d].results[u] = "rejected"

\* C18: when the mail send fails after the payout transaction and the
\* last-alert update, nothing is rolled back: the user stays PAID, keeps the
\* credit of 100 and the last-alert fields, and the failure is only that
\* user's recorded outcome: the dispatch does not fail.
C18_NoRollback ==
  \A d \in DKeys : \A u \in Users :
    MailFailedAfterPayout(d, u) =>
      /\ dispatches[d].emails[u] = 0
      /\ users[u].status = "PAID"
      /\ credited[u] = 0 =>
           users[u].balance = InitBalance + PayoutAmount * Total(DKeys, "payouts", u)
      /\ users[u].lastAlertTimestamp >= dispatches[d].start
      /\ users[u].lastAlertId # NoId
      /\ users[u].lastPayout >= dispatches[d].start
      /\ dispatches[d].state # "threw"
      /\ callLog[d[1]].error # "user"

\* the mail of a paid user failed and the call went on to return
C18_Witness ==
  \E d \in DKeys : \E u \in Users :
    /\ MailFailedAfterPayout(d, u)
    /\ dispatches[d].state = "returned"
    /\ callLog[d[1]].outcome = "returned"
    /\ users[u].status = "PAID" /\ users[u].balance = InitBalance + PayoutAmount
    /\ users[u].lastAlertId = dispatches[d].alert

\* C19: the status change of a payout is one-way: no step takes a user from
\* PAID to another status, and every step that changes a status writes PAID.
C19_PaidIsFinal ==
  [][\A u \in Users :
       /\ users[u].status = "PAID" => users'[u].status = "PAID"
       /\ users'[u].status # users[u].status => users'[u].status = "PAID"
    ]_vars

\* a user was paid, and a call made afterwards for the same postal code
\* no longer found the user among the ACTIVE ones
C19_Witness ==
  \E u \in Users : \E d1, d2 \in DKeys :
    /\ dispatches[d1].payouts[u] = 1
    /\ d1[1] \in callLog[d2[1]].prior
    /\ dispatches[d2].zip = users[u].zip
    /\ u \notin dispatches[d2].docs
    /\ users[u].status = "PAID"

\* the step is taken by a simulateDisaster or disaster invocation
SimulationStep ==
  \E s \in Slots :
    /\ inv'[s].kind \in Simulators
    /\ inv'[s] # inv[s] \/ tasks'[s] # tasks[s]

C21_DistinctZipOnce ==
  \A d1, d2 \in DKeys :
    ( /\ d1 # d2
      /\ dispatches[d1].kind = "fetchNoaaAlerts"
      /\ dispatches[d1].call = dispatches[d2].call
      /\ d1[2] = d2[2] )
    => dispatches[d1].zip # dispatches[d2].zip

\* C22: the count a completed ingestion call returns is the number of alerts
\* of its feed that had no marker when the call checked them, each counted
\* once, whether or not the alert mapped to a postal code or a user was
\* notified; a call whose feed has no alerts returns 0 and neither reads
\* nor writes a marker, starts no dispatch and writes no user.
C22_CountIsUnmarked ==
  \A c \in Slots :
    (Ingested(c) /\ callLog[c].outcome = "returned")
    => /\ callLog[c].count = callLog[c].unmarked
       /\ callLog[c].count = Cardinality(callLog[c].marked)
       /\ callLog[c].feed = <<>>
          => /\ callLog[c].count = 0
             /\ callLog[c].checked = 0
             /\ callLog[c].marked = {}
             /\ callLog[c].wrote = {}
             /\ \A d \in DKeys : dispatches[d].call # c

\* a completed call whose feed held the same alert twice, mapped to no postal
\* code: it is counted once
C22_Witness ==
  \E c \in Slots :
    /\ Ingested(c) /\ callLog[c].outcome = "returned"
    /\ callLog[c].feed = <<Alert3, Alert3>>
    /\ callLog[c].checked = 2
    /\ callLog[c].count = 1
    /\ \A d \in DKeys : dispatches[d].call # c

\* the dispatch with key d1 comes before that with key d2 in the loops of
\* their call
Before(d1, d2) == d1[1] = d2[1] /\ (d1[2] < d2[2] \/ (d1[2] = d2[2] /\ d1[3] < d2[3]))

\* what holds between the dispatches of one ingestion call
C23_Order ==
  /\ \A s \in Slots :
        (inv[s].kind = "fetchNoaaAlerts" /\ inv[s].pc # "await")
        => \A u \in Users : tasks[s][u] = NoTask
  /\ \A d \in DKeys :
        dispatches[d].kind = "fetchNoaaAlerts" =>
          /\ d[2] \in 1..Len(callLog[d[1]].feed)
          /\ dispatches[d].alert = callLog[d[1]].feed[d[2]].id
          /\ \A j \in 1..(d[3] - 1) : <<d[1], d[2], j>> \in DKeys
          /\ \A e \in DKeys :
               Before(e, d)
               => /\ dispatches[e].state = "returned"
                  /\ \A u \in dispatches[e].docs :
                       dispatches[e].results[u] \in {"fulfilled", "rejected"}

\* what a step of an ingestion call does to its position in the two loops
C23_Step ==
  \A s \in Slots :
    (inv[s].kind = "fetchNoaaAlerts" /\ inv'[s].kind = "fetchNoaaAlerts") =>
      /\ inv'[s].i \in {inv[s].i, inv[s].i + 1}
      /\ (inv'[s].i = inv[s].i + 1 /\ inv[s].pc \in {"lookup", "await"})
           => inv[s].j = Len(inv[s].zips)
      /\ (inv'[s] # inv[s] /\ inv'[s].pc = "lookup" /\ inv[s].pc \in {"lookup", "await"})
           => /\ inv'[s].i = inv[s].i
              /\ inv'[s].j = inv[s].j + 1
              /\ inv'[s].zips = inv[s].zips
      /\ \A d \in (DOMAIN dispatches') \ DKeys :
           d[1] = s => /\ d = <<s, inv[s].i, inv[s].j>>
                       /\ dispatches'[d].zip = inv[s].zips[inv[s].j]

\* C23: an ingestion call handles its alerts in feed order and the postal
\* codes of an alert one after the other, each exactly at its turn: a
\* dispatch is for the alert and postal code the loops stand at, the loops
\* advance by one position and leave an alert only after its last postal
\* code, every dispatch earlier in the loops has returned with all of its
\* per-user tasks settled before a later one exists, and no task runs
\* between two dispatches.
C23_SequentialDispatch == []C23_Order /\ [][C23_Step]_vars

\* a call went through both alerts of its feed: the first postal code of the
\* first alert held both users, and the two postal codes of the second alert
\* were dispatched after it
C23_Witness ==
  \E c \in Slots :
    /\ callLog[c].feed = <<Alert1, Alert2>>
    /\ {<<c, 1, 1>>, <<c, 2, 1>>, <<c, 2, 2>>} \subseteq DKeys
    /\ dispatches[<<c, 1, 1>>].docs = Users
    /\ dispatches[<<c, 2, 2>>].state = "returned"

\* what every handleZipAlert call has done so far
C24_Scope ==
  \A d \in DKeys :
    /\ \A u \in dispatches[d].docs : users[u].zip = dispatches[d].zip
    /\ dispatches[d].wrote \subseteq dispatches[d].docs
    /\ \A u \in Users \ dispatches[d].docs :
         /\ dispatches[d].emails[u] = 0
         /\ dispatches[d].payouts[u] = 0
         /\ dispatches[d].results[u] = "none"
    /\ dispatches[d].docs = {} => dispatches[d].state # "running"

\* what a step does: a call that starts takes exactly the users of its postal
\* code that are ACTIVE at that moment and, when there is none, returns at
\* once and changes nothing; a user record changes only by a step of a
\* task of a call that looked the user up, or by the admin tool
C24_Step ==
  /\ \A d \in (DOMAIN dispatches') \ DKeys :
       LET found == { u \in Users : /\ users[u].zip = dispatches'[d].zip
                                    /\ users[u].status = "ACTIVE" }
       IN  /\ dispatches'[d].docs \subseteq found
           /\ dispatches'[d].state # "threw" => dispatches'[d].docs = found
           /\ (dispatches'[d].state # "threw" /\ found = {})
                => /\ dispatches'[d].state = "returned"
                   /\ users' = users
                   /\ tasks' = tasks
                   /\ callLog'[d[1]].outcome # "threw"
  /\ \A u \in Users :
       users'[u] # users[u]
       => \/ credited'[u] # credited[u]
          \/ \E s \in Slots :
               /\ inv[s].pc = "await"
               /\ tasks'[s][u].pc # tasks[s][u].pc
               /\ u \in dispatches[DKey(s)].docs
               /\ users[u].zip = dispatches[DKey(s)].zip

\* C24: handleZipAlert(zip, ...) mutates and emails only users whose postal
\* code equals zip and whose status was ACTIVE when it looked them up; every
\* other user record is left unchanged, and when there is no such user the
\* call is a no-op that completes without error.
C24_ZipAlertFrame == []C24_Scope /\ [][C24_Step]_vars

\* a call for the postal code of u1 paid and emailed u1 and left u2, who lives
\* elsewhere, as it was; a later call for the same postal code found nobody
\* and returned
C24_Witness ==
  \E d1, d2 \in DKeys :
    /\ dispatches[d1].zip = Zip70401 /\ dispatches[d2].zip = Zip70401
    /\ dispatches[d1].docs = {"u1"}
    /\ dispatches[d1].payouts["u1"] = 1 /\ dispatches[d1].emails["u1"] = 1
    /\ dispatches[d2].docs = {} /\ dispatches[d2].state = "returned"
    /\ users["u2"].zip = Zip70112
    /\ users["u2"].status = "ACTIVE" /\ users["u2"].balance = InitBalance
    /\ users["u2"].lastAlertTimestamp = 0

\* C25: the handleUserAlert of src/unnamed/part_000 skips a user exactly when
\* less than 30 minutes have elapsed since lastAlertTimestamp; a user whose
\* last alert is 30 minutes old or older is notified.
C25_ThirtyMinuteWindow000 ==
  (arg.f = "handleUserAlert000" /\ ret.done)
  => (ret.val.skip <=> now - arg.v.lastAlertTimestamp < thirtyMinutes)

\* C26: the canReceiveAlert flag of checkUsers agrees with the rate-limit
\* decision of the dispatcher for every user record and every time, the
\* moment at which exactly 30 minutes have elapsed included.
C26_FlagAgreesWithDispatcher ==
  (arg.f = "checkUsers" /\ ret.done)
  => (ret.val.canReceiveAlert <=> ~ret.val.skip)

\* the calls made so far are ingestion and simulation calls that did not
\* overlap: each started after the other had finished
Sequential ==
  /\ \A c \in Slots :
       callLog[c].kind \in {"none", "fetchNoaaAlerts", "simulateDisaster", "disaster"}
  /\ \A c1, c2 \in Slots :
       (c1 # c2 /\ callLog[c1].kind # "none" /\ callLog[c2].kind # "none")
       => (c1 \in callLog[c2].prior \/ c2 \in callLog[c1].prior)

\* dispatch d2 was started after dispatch d1 had finished
Later(d1, d2) == Before(d1, d2) \/ d1[1] \in callLog[d2[1]].prior

\* C27: over ingestion and simulation calls that do not overlap a user
\* receives at most one payout in total and is credited once; a dispatch
\* that starts after the user's payout does not look the user up, and
\* neither pays nor emails the user again.
C27_OnePayoutInTotal ==
  Sequential =>
    \A u \in Users :
      /\ Total(DKeys, "payouts", u) <= 1
      /\ users[u].balance = InitBalance + PayoutAmount * Total(DKeys, "payouts", u)
      /\ (users[u].status = "PAID") <=> (Total(DKeys, "payouts", u) = 1)
      /\ \A d1, d2 \in DKeys :
           (dispatches[d1].payouts[u] = 1 /\ Later(d1, d2))
           => /\ u \notin dispatches[d2].docs
              /\ dispatches[d2].payouts[u] = 0
              /\ dispatches[d2].emails[u] = 0

\* a call paid u1; a later call, made after the rate-limit window of u1 had
\* passed, dispatched a paying alert to the same postal code and did not
\* look u1 up
C27_Witness ==
  /\ Sequential
  /\ \E d1, d2 \in DKeys :
       /\ dispatches[d1].payouts["u1"] = 1
       /\ d1[1] \in callLog[d2[1]].prior
       /\ dispatches[d2].pay /\ dispatches[d2].zip = users["u1"].zip
       /\ dispatches[d2].start >= dispatches[d1].start + thirtyMinutes
       /\ dispatches[d2].state = "returned"
       /\ "u1" \notin dispatches[d2].docs

\* a paying dispatch has not touched a user whose payout it did not commit
C28_Stopped ==
  \A d \in DKeys : \A u \in Users :
    (dispatches[d].pay /\ dispatches[d].payouts[u] = 0)
    => /\ u \notin dispatches[d].wrote
       /\ dispatches[d].emails[u] = 0

\* the step in which the transaction of a task fails ends the task and
\* changes no user record and sends nothing; a task that has ended does not
\* resume
C28_Step ==
  \A s \in Slots : \A u \in Users :
    /\ (tasks[s][u].pc = "txnCommit" /\ tasks'[s][u].pc = "rejected")
         => /\ users' = users
            /\ dispatches' = dispatches
    /\ tasks[s][u].pc = "rejected"
         => tasks'[s][u].pc \in {"rejected", "none"}

\* C28: when the payout transaction of handleUserAlert fails, the call stops
\* before the last-alert update and the email: the user's lastAlertTimestamp
\* and lastAlertId are not changed by it, no email is sent, and the user
\* remains eligible for a later attempt.
C28_TxnFailureStops == []C28_Stopped /\ [][C28_Step]_vars

\* the transaction for u1 failed in a paying dispatch that had the API key;
\* u1 was left as it was, and a later call paid and emailed u1
C28_Witness ==
  \E d1, d2 \in DKeys :
    /\ smtpApiKey
    /\ dispatches[d1].pay /\ "u1" \in dispatches[d1].docs
    /\ dispatches[d1].results["u1"] = "rejected"
    /\ dispatches[d1].payouts["u1"] = 0
    /\ d1[1] \in callLog[d2[1]].prior
    /\ dispatches[d2].seen["u1"] = 0
    /\ dispatches[d2].payouts["u1"] = 1
    /\ dispatches[d2].emails["u1"] = 1

\* C29: the two readers of the lookup table agree on its orientation: for
\* every postal code z for which the table supplies an area description to
\* simulateDisaster (zipToCounty[z]), mapAreaToZips applied to that area
\* description returns a list containing z.
C29_ConsistentOrientation ==
  \A z \in {Zip70401, Zip70112} :
    Truthy(TableGet(z)) => z \in Range(mapAreaToZips(TableGet(z)))

\* the adminAgent requests that entered the agent loop
InLoop(c) == callLog[c].kind = "adminAgent" /\ callLog[c].llm

\* the counters of the loop, and the responses sent
C30_Bounded ==
  \A c \in Slots :
    InLoop(c) =>
      /\ inv[c].iterationCount <= maxIterations
      /\ inv[c].toolCalls <= maxIterations
      /\ inv[c].pc = "llm" => inv[c].toolCalls = inv[c].iterationCount - 1
      /\ callLog[c].responses = IF inv[c].pc = "done" THEN 1 ELSE 0

\* the step that answers the request, and what follows it
C30_Step ==
  \A c \in Slots :
    /\ (InLoop(c) /\ inv[c].pc # "done" /\ inv'[c].pc = "done")
         => /\ callLog'[c].error \in {"none", "max", "llm", "tool"}
            /\ callLog'[c].error = "none"
                 => inv[c].pc = "llm" /\ callLog'[c].status = 200
            /\ callLog'[c].error = "max"
                 => /\ inv[c].iterationCount = maxIterations
                    /\ inv[c].pc # "llm" => inv[c].toolCalls = maxIterations
                    /\ callLog'[c].status = 500
            /\ callLog'[c].error \in {"llm", "tool"}
                 => inv[c].pc = "llm" /\ callLog'[c].status = 500
    /\ (InLoop(c) /\ inv[c].pc = "done")
         => inv'[c] = inv[c] /\ callLog'[c] = callLog[c]

\* C30 as stated: a request that entered the loop gets the model's text
\* answer or the error "Max iterations reached", and nothing else.
C30_TextOrMaxIterations ==
  \A c \in Slots :
    (InLoop(c) /\ inv[c].pc = "done") => callLog[c].error \in {"none", "max"}

\* C30 (amended): the agent loop always terminates: per request it makes at
\* most 10 model calls and at most 10 tool calls and sends exactly one
\* response, which is the model's text answer if a call returned no tool
\* use within 10 iterations, the error "Max iterations reached" with status
\* 500 after ten tool uses, and the status-500 error of the exception when
\* a model call or a tool call throws.
C30_AgentLoopTerminates ==
  /\ []C30_Bounded
  /\ [][C30_Step]_vars
  /\ \A c \in Slots : (inv[c].kind = "adminAgent") ~> (inv[c].pc = "done")

\* a request whose every model call asked for a tool was answered with "Max
\* iterations reached"; another got the model's text after some tool uses
C30_Witness ==
  \E c1, c2 \in Slots :
    /\ InLoop(c1) /\ callLog[c1].error = "max" /\ callLog[c1].status = 500
    /\ callLog[c1].responses = 1
    /\ InLoop(c2) /\ callLog[c2].error = "none" /\ callLog[c2].status = 200
    /\ callLog[c2].wrote # {}

============================================================================
